---- MODULE Spec2Model ----
(***************************************************************************)
(* Model of custom_components/omnik_inverter/config_flow.py: the setup     *)
(* wizard OmnikInverterFlowHandler (steps user, setup, setup_html_or_cgi,  *)
(* setup_tcp) and the options editor OmnikInverterOptionsFlowHandler       *)
(* (step init).                                                            *)
(*                                                                         *)
(* The handlers are coroutines: a parameter step suspends at               *)
(* `await validate_input`, at entering the `async with` block, at          *)
(* `await client.inverter()` and at leaving the block.  Each suspension    *)
(* point is a value of pc, and each piece between two of them one action.  *)
(* The host platform calls a step with the input of the form it showed     *)
(* last, after passing the input through that form's data_schema.          *)
(***************************************************************************)
EXTENDS Integers, Sequences, FiniteSets, TLC

\* ------------------------------------------------------------------ bounds
NumHosts == 2       \* distinct host strings a user may type
NumNames == 2       \* distinct display names
NumCreds == 2       \* distinct usernames, and distinct passwords
NumSerials == 2     \* distinct serial numbers
MaxFailures == 2    \* the count of failed submissions saturates here
MaxInterval == 2    \* the largest polling interval a user submits
MaxNegative == 1    \* the most negative polling interval is -MaxNegative

\* const.py, which the module imports DEFAULT_SCAN_INTERVAL from
DEFAULT_SCAN_INTERVAL == 4

Hosts == 1..NumHosts
Names == 1..NumNames
Usernames == 1..NumCreds
Passwords == 1..NumCreds
Serials == 1..NumSerials

\* ------------------------------------------------------------ wizard data
\* list_of_types of async_step_user
list_of_types == {"Javascript", "JSON", "HTML", "TCP", "CGI"}

ParamSteps == {"setup", "setup_html_or_cgi", "setup_tcp"}

Lower_identity(s) == s

\* str.lower() on the names of list_of_types
Lower(s) ==
    CASE s = "Javascript" -> "javascript"
      [] s = "JSON" -> "json"
      [] s = "HTML" -> "html"
      [] s = "TCP" -> "tcp"
      [] s = "CGI" -> "cgi"
      [] OTHER -> s

RouteFor_tcp_with_auth(user_selection) ==
    IF user_selection = "HTML" \/ user_selection = "CGI" \/ user_selection = "TCP"
    THEN "setup_html_or_cgi"
    ELSE "setup"

RouteFor_cgi_generic(user_selection) ==
    IF user_selection = "HTML" THEN "setup_html_or_cgi"
    ELSE IF user_selection = "TCP" THEN "setup_tcp"
    ELSE "setup"

\* the if / elif / fall-through of async_step_user
RouteFor(user_selection) ==
    IF user_selection = "HTML" \/ user_selection = "CGI" THEN "setup_html_or_cgi"
    ELSE IF user_selection = "TCP" THEN "setup_tcp"
    ELSE "setup"

EmptyDict == [k \in {} |-> ""]

NoResult == [type |-> "none"]
NoEntry == [type |-> "none"]
NoInput == [kind |-> "none"]
NoExc == [cls |-> "none", msg |-> ""]
NoClient == [state |-> "closed"]

\* self.async_show_form(step_id=..., data_schema=..., errors=errors)
ShowForm(step_id, errors) ==
    [type |-> "form", step_id |-> step_id, errors |-> errors]

\* self.async_create_entry(title=..., data=...)
CreateEntry(title, data) ==
    [type |-> "create_entry", title |-> title, data |-> data]

\* the data_schema of each parameter form: the inputs the host lets through
SchemaInputs(step) ==
    CASE step = "setup" ->
           { [name |-> n, host |-> h] : n \in Names, h \in Hosts }
      [] step = "setup_html_or_cgi" ->
           { [name |-> n, host |-> h, username |-> u, password |-> p] :
               n \in Names, h \in Hosts, u \in Usernames, p \in Passwords }
      [] step = "setup_tcp" ->
           { [name |-> n, host |-> h, serial_number |-> s] :
               n \in Names, h \in Hosts, s \in Serials }
      [] OTHER -> {}

\* the keyword arguments of OmnikInverter(...) in each parameter step
ClientArgs(step, user_input, st) ==
    CASE step = "setup" ->
           [state |-> "open", host |-> user_input.host, source_type |-> st]
      [] step = "setup_html_or_cgi" ->
           [state |-> "open", host |-> user_input.host, source_type |-> st,
            username |-> user_input.username, password |-> user_input.password]
      [] step = "setup_tcp" ->
           [state |-> "open", host |-> user_input.host, source_type |-> st,
            serial_number |-> user_input.serial_number]
      [] OTHER -> NoClient

EntryData_with_name(step, user_input, st) ==
    CASE step = "setup_html_or_cgi" ->
           [host |-> user_input.host, source_type |-> st,
            username |-> user_input.username, password |-> user_input.password,
            name |-> user_input.name]
      [] step = "setup_tcp" ->
           [host |-> user_input.host, source_type |-> st,
            serial_number |-> user_input.serial_number, name |-> user_input.name]
      [] OTHER ->
           [host |-> user_input.host, source_type |-> st, name |-> user_input.name]

\* the data= dict of async_create_entry in each parameter step
EntryData(step, user_input, st) ==
    CASE step = "setup_html_or_cgi" ->
           [host |-> user_input.host, source_type |-> st,
            username |-> user_input.username, password |-> user_input.password]
      [] step = "setup_tcp" ->
           [host |-> user_input.host, source_type |-> st,
            serial_number |-> user_input.serial_number]
      [] OTHER ->
           [host |-> user_input.host, source_type |-> st]

\* ------------------------------------------------------------- exceptions
\* The classes an except clause names, and the classes of the exceptions
\* that reach it.  omnikinverter derives its connection, authentication,
\* wrong-source and wrong-values errors from OmnikInverterError; everything
\* here derives from Exception.
Bases(cls) ==
    CASE cls = "OmnikInverterError" -> {"OmnikInverterError", "Exception"}
      [] cls = "OmnikInverterConnectionError" ->
           {"OmnikInverterConnectionError", "OmnikInverterError", "Exception"}
      [] cls = "OmnikInverterAuthError" ->
           {"OmnikInverterAuthError", "OmnikInverterError", "Exception"}
      [] cls = "OmnikInverterWrongSourceError" ->
           {"OmnikInverterWrongSourceError", "OmnikInverterError", "Exception"}
      [] OTHER -> {cls, "Exception"}

\* `except handler_cls` matches an exception of class cls
Catches(handler_cls, e) == handler_cls \in Bases(e.cls)

\* what client.inverter() may raise
ProbeErrors ==
    { [cls |-> "OmnikInverterConnectionError", msg |-> "Timeout occurred"],
      [cls |-> "OmnikInverterError", msg |-> "Omnik error"],
      [cls |-> "OmnikInverterAuthError", msg |-> "Authentication failed"],
      [cls |-> "OmnikInverterWrongSourceError", msg |-> "No data source"],
      [cls |-> "ValueError", msg |-> "Unexpected response"],
      [cls |-> "RuntimeError", msg |-> ""] }

ResolutionFailure_reraise == [cls |-> "gaierror", msg |-> "Name or service not known"]

\* validate_input: `except socket.gaierror: raise Exception("invalid_host")`
ResolutionFailure == [cls |-> "Exception", msg |-> "invalid_host"]

\* socket.gethostbyname raises UnicodeError, not gaierror, for a name the
\* idna codec refuses; validate_input does not catch it
HostEncodingFailure == [cls |-> "UnicodeError", msg |-> "label empty or too long"]

ErrorsFor_broad_first(e) ==
    IF Catches("Exception", e) THEN [base |-> e.msg]
    ELSE IF Catches("OmnikInverterError", e) THEN [base |-> "cannot_connect"]
    ELSE EmptyDict

ErrorsFor_unknown(e) ==
    IF Catches("OmnikInverterError", e) THEN [base |-> "cannot_connect"]
    ELSE IF Catches("Exception", e) THEN [base |-> "unknown"]
    ELSE EmptyDict

\* the two except clauses of a parameter step, in their order
ErrorsFor(e) ==
    IF Catches("OmnikInverterError", e) THEN [base |-> "cannot_connect"]
    ELSE IF Catches("Exception", e) THEN [base |-> e.msg]
    ELSE EmptyDict

\* ----------------------------------------------------------- options data
\* a submitted value: an integer v, the decimal string of v, a string that
\* is no number, or the float v/2
RawValues ==
    { [t |-> "int", v |-> n] : n \in (0 - MaxNegative)..MaxInterval }
    \cup { [t |-> "str", v |-> n] : n \in (0 - MaxNegative)..MaxInterval }
    \cup { [t |-> "text", v |-> 0] }
    \cup { [t |-> "float", v |-> k] : k \in {0 - 1, 1, 3} }

\* vol.Coerce(int): int(value), or Invalid when int() raises
CoerceInt(raw) ==
    CASE raw.t = "int" -> [ok |-> TRUE, v |-> raw.v]
      [] raw.t = "str" -> [ok |-> TRUE, v |-> raw.v]
      [] raw.t = "float" ->
           [ok |-> TRUE,
            v |-> IF raw.v >= 0 THEN raw.v \div 2 ELSE 0 - ((0 - raw.v) \div 2)]
      [] OTHER -> [ok |-> FALSE, v |-> 0]

RangeMin_zero(v) == v >= 0

\* vol.Range(min=1)
RangeMin(v) == v >= 1

\* the data_schema of the init form applied to a submission: the optional
\* key takes the form's default when absent, then vol.All(Coerce, Range)
ScanIntervalSchema(input, default) ==
    LET raw == IF "scan_interval" \in DOMAIN input
               THEN input.scan_interval
               ELSE [t |-> "int", v |-> default]
        c == CoerceInt(raw)
    IN IF c.ok /\ RangeMin(c.v)
       THEN [ok |-> TRUE, data |-> [scan_interval |-> c.v]]
       ELSE [ok |-> FALSE, data |-> EmptyDict]

OptionInputs == {EmptyDict} \cup { [scan_interval |-> r] : r \in RawValues }

\* self.config_entry.options.get(CONF_SCAN_INTERVAL, DEFAULT_SCAN_INTERVAL)
CurrentInterval(opts) ==
    IF "scan_interval" \in DOMAIN opts THEN opts.scan_interval
    ELSE DEFAULT_SCAN_INTERVAL

\* ------------------------------------------------------------------ state
VARIABLES
    source_type,     \* self.source_type ("None" until the user step sets it)
    result,          \* the FlowResult the wizard returned last
    entry,           \* the configuration entry the host persisted
    pc,              \* where the running parameter step is suspended
    handler,         \* the parameter step that is running, or ran last
    user_input,      \* its user_input
    exc,             \* the exception raised in its try block
    client,          \* the OmnikInverter client of its async with block
    events,          \* what the running (or last) submission did, in order
    user_selection,  \* the type submitted to the user step
    n_failed,        \* failed parameter submissions so far (saturating)
    options,         \* config_entry.options
    opt_result,      \* the FlowResult the options flow returned last
    opt_input,       \* the input of the last options submission
    opt_outcome      \* what the host did with it

vars == <<source_type, result, entry, pc, handler, user_input, exc, client,
          events, user_selection, n_failed, options, opt_result, opt_input,
          opt_outcome>>

wizard_vars == <<source_type, result, entry, pc, handler, user_input, exc,
                 client, events, user_selection, n_failed>>

option_vars == <<options, opt_result, opt_input, opt_outcome>>

\* the step whose form the wizard shows
CurStep == IF result.type = "form" THEN result.step_id ELSE "none"

\* OmnikInverterFlowHandler.__init__, and a fresh entry's empty options
Init ==
    /\ source_type = "None"
    /\ result = NoResult
    /\ entry = NoEntry
    /\ pc = "idle"
    /\ handler = "none"
    /\ user_input = NoInput
    /\ exc = NoExc
    /\ client = NoClient
    /\ events = <<>>
    /\ user_selection = "none"
    /\ n_failed = 0
    /\ options = EmptyDict
    /\ opt_result = NoResult
    /\ opt_input = EmptyDict
    /\ opt_outcome = "none"

\* ----------------------------------------------------------------- wizard
\* async_step_user(None): the host starts the flow
FlowInit ==
    /\ result = NoResult
    /\ result' = ShowForm("user", EmptyDict)
    /\ UNCHANGED <<source_type, entry, pc, handler, user_input, exc, client,
                   events, user_selection, n_failed>>
    /\ UNCHANGED option_vars

\* async_step_user({type: selection}): sets source_type and returns what the
\* routed parameter step returns when called without input
StepUser(selection) ==
    /\ pc = "idle"
    /\ CurStep = "user"
    /\ source_type' = Lower(selection)
    /\ user_selection' = selection
    /\ result' = ShowForm(RouteFor(selection), EmptyDict)
    /\ UNCHANGED <<entry, pc, handler, user_input, exc, client, events, n_failed>>
    /\ UNCHANGED option_vars

\* a parameter step called with input: up to `await validate_input`
StepSubmit(input) ==
    /\ pc = "idle"
    /\ CurStep \in ParamSteps
    /\ input \in SchemaInputs(CurStep)
    /\ handler' = CurStep
    /\ user_input' = input
    /\ exc' = NoExc
    /\ events' = <<>>
    /\ pc' = "validate"
    /\ UNCHANGED <<source_type, result, entry, client, user_selection, n_failed>>
    /\ UNCHANGED option_vars

\* validate_input: gethostbyname returns, raises gaierror, or raises
\* something else
ValidateInput(outcome) ==
    /\ pc = "validate"
    /\ CASE outcome = "resolved" ->
              /\ events' = Append(events, "resolve_ok")
              /\ exc' = exc
              /\ pc' = "enter"
         [] outcome = "gaierror" ->
              /\ events' = Append(events, "resolve_gaierror")
              /\ exc' = ResolutionFailure
              /\ pc' = "finish"
         [] OTHER ->
              /\ events' = Append(events, "resolve_error")
              /\ exc' = HostEncodingFailure
              /\ pc' = "finish"
    /\ UNCHANGED <<source_type, result, entry, handler, user_input, client,
                   user_selection, n_failed>>
    /\ UNCHANGED option_vars

\* `async with OmnikInverter(...) as client`: the client is set up
ClientEnter ==
    /\ pc = "enter"
    /\ client' = ClientArgs(handler, user_input, source_type)
    /\ events' = Append(events, "open")
    /\ pc' = "probe"
    /\ UNCHANGED <<source_type, result, entry, handler, user_input, exc,
                   user_selection, n_failed>>
    /\ UNCHANGED option_vars

\* `await client.inverter()` returns
ProbeOk ==
    /\ pc = "probe"
    /\ events' = Append(events, "fetch_ok")
    /\ pc' = "exit"
    /\ UNCHANGED <<source_type, result, entry, handler, user_input, exc, client,
                   user_selection, n_failed>>
    /\ UNCHANGED option_vars

\* `await client.inverter()` raises
ProbeRaises(e) ==
    /\ pc = "probe"
    /\ e \in ProbeErrors
    /\ exc' = e
    /\ events' = Append(events, "fetch_error")
    /\ pc' = "exit"
    /\ UNCHANGED <<source_type, result, entry, handler, user_input, client,
                   user_selection, n_failed>>
    /\ UNCHANGED option_vars

ClientExit_leak_on_error ==
    /\ pc = "exit"
    /\ client' = IF exc = NoExc THEN NoClient ELSE client
    /\ events' = IF exc = NoExc THEN Append(events, "close") ELSE events
    /\ pc' = "finish"
    /\ UNCHANGED <<source_type, result, entry, handler, user_input, exc,
                   user_selection, n_failed>>
    /\ UNCHANGED option_vars

\* leaving the async with block, by return or by exception: the client closes
ClientExit ==
    /\ pc = "exit"
    /\ client' = NoClient
    /\ events' = Append(events, "close")
    /\ pc' = "finish"
    /\ UNCHANGED <<source_type, result, entry, handler, user_input, exc,
                   user_selection, n_failed>>
    /\ UNCHANGED option_vars

StepFinish_reset_on_failure ==
    /\ pc = "finish"
    /\ pc' = "idle"
    /\ IF exc # NoExc
       THEN /\ result' = ShowForm("user", ErrorsFor(exc))
            /\ events' = Append(events, "show_form")
            /\ n_failed' = IF n_failed < MaxFailures THEN n_failed + 1 ELSE n_failed
            /\ source_type' = "None"
            /\ UNCHANGED entry
       ELSE /\ result' = CreateEntry(user_input.name,
                                     EntryData(handler, user_input, source_type))
            /\ entry' = [type |-> "entry", title |-> result'.title,
                         data |-> result'.data]
            /\ events' = Append(events, "create_entry")
            /\ UNCHANGED <<n_failed, source_type>>
    /\ UNCHANGED <<handler, user_input, exc, client, user_selection>>
    /\ UNCHANGED option_vars

\* the except / else clauses and the return of a parameter step; the host
\* persists the entry of a create_entry result
StepFinish ==
    /\ pc = "finish"
    /\ pc' = "idle"
    /\ IF exc # NoExc
       THEN /\ result' = ShowForm(handler, ErrorsFor(exc))
            /\ events' = Append(events, "show_form")
            /\ n_failed' = IF n_failed < MaxFailures THEN n_failed + 1 ELSE n_failed
            /\ UNCHANGED entry
       ELSE /\ result' = CreateEntry(user_input.name,
                                     EntryData(handler, user_input, source_type))
            /\ entry' = [type |-> "entry", title |-> result'.title,
                         data |-> result'.data]
            /\ events' = Append(events, "create_entry")
            /\ UNCHANGED n_failed
    /\ UNCHANGED <<source_type, handler, user_input, exc, client, user_selection>>
    /\ UNCHANGED option_vars

\* ---------------------------------------------------------------- options
\* async_get_options_flow(config_entry) and async_step_init(None)
OptionsInit ==
    /\ entry # NoEntry
    /\ opt_result.type # "form"
    /\ opt_result' = [type |-> "form", step_id |-> "init",
                      default |-> CurrentInterval(options)]
    /\ opt_outcome' = "shown"
    /\ UNCHANGED <<options, opt_input>>
    /\ UNCHANGED wizard_vars

\* a submission of the init form: the host applies the form's data_schema
\* and, when it passes, calls async_step_init with its output and persists
\* the data of the create_entry result as the entry's options
OptionsSubmit(input) ==
    /\ opt_result.type = "form"
    /\ input \in OptionInputs
    /\ opt_input' = input
    /\ LET checked == ScanIntervalSchema(input, opt_result.default)
       IN IF checked.ok
          THEN /\ opt_result' = CreateEntry("", checked.data)
               /\ options' = checked.data
               /\ opt_outcome' = "saved"
          ELSE /\ opt_outcome' = "rejected"
               /\ UNCHANGED <<opt_result, options>>
    /\ UNCHANGED wizard_vars

\* ------------------------------------------------------------------- spec
Next ==
    \/ FlowInit
    \/ \E selection \in list_of_types : StepUser(selection)
    \/ \E input \in UNION { SchemaInputs(s) : s \in ParamSteps } : StepSubmit(input)
    \/ \E outcome \in {"resolved", "gaierror", "unicode_error"} : ValidateInput(outcome)
    \/ ClientEnter
    \/ ProbeOk
    \/ \E e \in ProbeErrors : ProbeRaises(e)
    \/ ClientExit
    \/ StepFinish
    \/ OptionsInit
    \/ \E input \in OptionInputs : OptionsSubmit(input)

Spec == Init /\ [][Next]_vars

\* ----------------------------------------------------------------- claims
Range(s) == { s[i] : i \in DOMAIN s }

Positions(s, kinds) == { i \in DOMAIN s : s[i] \in kinds }

AtIdleAfter(kind) == pc = "idle" /\ kind \in Range(events)

\* the parameter step each selection belongs to, as the specification
\* states it
StepOfSelection(selection) ==
    CASE selection \in {"HTML", "CGI"} -> "setup_html_or_cgi"
      [] selection = "TCP" -> "setup_tcp"
      [] selection \in {"Javascript", "JSON"} -> "setup"
      [] OTHER -> "none"

\* the source types each parameter step serves
TypesOfStep(step) ==
    CASE step = "setup" -> {"javascript", "json"}
      [] step = "setup_html_or_cgi" -> {"html", "cgi"}
      [] step = "setup_tcp" -> {"tcp"}
      [] OTHER -> {}

\* the keys of a persisted entry's data, per parameter step
KeysOfStep(step) ==
    CASE step = "setup" -> {"host", "source_type"}
      [] step = "setup_html_or_cgi" -> {"host", "source_type", "username", "password"}
      [] step = "setup_tcp" -> {"host", "source_type", "serial_number"}
      [] OTHER -> {}

FormWithError(code) ==
    /\ result.type = "form"
    /\ result.step_id = handler
    /\ handler \in ParamSteps
    /\ DOMAIN result.errors = {"base"}
    /\ result.errors["base"] = code

\* C1: submitting the user step with a selection of list_of_types shows the
\* matching parameter form (HTML and CGI: setup_html_or_cgi; TCP: setup_tcp;
\* Javascript and JSON: setup), with no error annotation, and the transition
\* creates no entry.
C1_UserStepRoutes ==
    [][ user_selection' # user_selection =>
          /\ user_selection' \in list_of_types
          /\ result'.type = "form"
          /\ result'.step_id = StepOfSelection(user_selection')
          /\ DOMAIN result'.errors = {}
          /\ entry = NoEntry /\ entry' = NoEntry
          /\ pc' = "idle" ]_vars

C1_Witness ==
    /\ user_selection = "CGI"
    /\ CurStep = "setup_html_or_cgi"
    /\ handler = "none"

ConnectionFailure == {"OmnikInverterError", "OmnikInverterConnectionError"}

\* C3: a parameter submission whose host resolves and whose probe raises the
\* connection failure ends with the same step's form and base error exactly
\* cannot_connect, and no entry is created.
C3_CannotConnect ==
    ("fetch_error" \in Range(events) /\ exc.cls \in ConnectionFailure) =>
          /\ events[1] = "resolve_ok"
          /\ entry = NoEntry
          /\ pc = "idle" =>
                FormWithError("cannot_connect")
                /\ result.step_id = StepOfSelection(user_selection)

C3_Witness ==
    /\ pc = "idle"
    /\ "fetch_error" \in Range(events)
    /\ exc.cls = "OmnikInverterConnectionError"
    /\ handler = "setup_html_or_cgi"
    /\ CurStep = "setup_html_or_cgi"

\* C4 as claimed: every probe error other than the connection failure, the
\* inverter client's other error kinds included, is shown with its own
\* message and not as cannot_connect.
C4_Original ==
    (AtIdleAfter("fetch_error") /\ exc.cls \notin ConnectionFailure) =>
          /\ FormWithError(exc.msg)
          /\ result.errors["base"] # "cannot_connect"
          /\ entry = NoEntry

\* the error classes of the inverter client: OmnikInverterError and the
\* classes derived from it
ClientErrorKinds ==
    {"OmnikInverterError", "OmnikInverterConnectionError",
     "OmnikInverterAuthError", "OmnikInverterWrongSourceError"}

\* C4 (amended): when the host resolves and the probe raises an error that
\* is not an OmnikInverterError, the step is shown again with that error's
\* message, verbatim, as the base error; every error kind of the inverter
\* client, being an OmnikInverterError, is shown as cannot_connect; no entry
\* is created in either case.
C4_OtherErrorVerbatim ==
    AtIdleAfter("fetch_error") =>
          /\ events[1] = "resolve_ok"
          /\ entry = NoEntry
          /\ exc.cls \notin ClientErrorKinds => FormWithError(exc.msg)
          /\ exc.cls \in ClientErrorKinds => FormWithError("cannot_connect")

C4_Witness ==
    /\ AtIdleAfter("fetch_error")
    /\ exc = [cls |-> "ValueError", msg |-> "Unexpected response"]
    /\ result.type = "form"
    /\ result.errors = [base |-> "Unexpected response"]

\* C5: a submission with a resolvable host and a successful probe ends the
\* wizard with one entry whose title is the submitted name and whose data
\* has exactly the keys of its step, with the submitted values; the name is
\* not part of the data.
C5_EntryCreated ==
    /\ AtIdleAfter("fetch_ok") => result.type = "create_entry"
    /\ result.type = "create_entry" =>
          /\ pc = "idle"
          /\ "fetch_ok" \in Range(events) /\ events[1] = "resolve_ok"
          /\ result.title = user_input.name
          /\ DOMAIN result.data = KeysOfStep(handler)
          /\ "name" \notin DOMAIN result.data
          /\ result.data.host = user_input.host
          /\ result.data.source_type = source_type
          /\ \A k \in DOMAIN result.data \ {"source_type"} :
                result.data[k] = user_input[k]
          /\ entry = [type |-> "entry", title |-> user_input.name,
                      data |-> result.data]
          /\ ~ ENABLED (\E input \in SchemaInputs(handler) : StepSubmit(input))

C5_Witness ==
    /\ result.type = "create_entry"
    /\ handler = "setup_html_or_cgi"
    /\ entry.title = 2
    /\ entry.data = [host |-> 1, source_type |-> "html", username |-> 1,
                     password |-> 2]

\* the submitted values that are, as integers, at least 1
AcceptableInterval(raw) ==
    \/ raw.t \in {"int", "str"} /\ raw.v >= 1
    \/ raw.t = "float" /\ raw.v >= 2

\* the integer such a value stands for
IntervalOf(raw) == IF raw.t = "float" THEN raw.v \div 2 ELSE raw.v

OptionsStep == <<opt_result, opt_input, opt_outcome, options>>' # <<opt_result, opt_input, opt_outcome, options>>

\* C6: the init step persists an options record and ends the flow only for
\* a submitted interval that coerces to an integer >= 1; 0 and negative
\* values are rejected and persist nothing; a persisted record always has
\* scan_interval >= 1; a call without input persists nothing and shows the
\* form with the entry's current scan_interval, or the default when unset.
C6_OptionsEditor ==
    /\ []("scan_interval" \in DOMAIN options => options.scan_interval >= 1)
    /\ [][ OptionsStep =>
             /\ options' # options =>
                   /\ opt_outcome' = "saved"
                   /\ DOMAIN options' = {"scan_interval"}
             /\ opt_outcome' = "saved" =>
                   /\ opt_result'.type = "create_entry"
                   /\ opt_result'.data = options'
                   /\ "scan_interval" \in DOMAIN opt_input' =>
                         /\ AcceptableInterval(opt_input'.scan_interval)
                         /\ options'.scan_interval = IntervalOf(opt_input'.scan_interval)
             /\ opt_outcome' = "rejected" =>
                   /\ options' = options
                   /\ opt_result' = opt_result
             /\ (opt_outcome' # "shown" /\ "scan_interval" \in DOMAIN opt_input'
                    /\ ~ AcceptableInterval(opt_input'.scan_interval)) =>
                   opt_outcome' = "rejected"
             /\ opt_outcome' = "shown" =>
                   /\ options' = options
                   /\ opt_result'.type = "form"
                   /\ opt_result'.step_id = "init"
                   /\ opt_result'.default =
                         IF "scan_interval" \in DOMAIN options
                         THEN options.scan_interval ELSE DEFAULT_SCAN_INTERVAL ]_vars

C6_Witness ==
    /\ opt_outcome = "rejected"
    /\ opt_input = [scan_interval |-> [t |-> "int", v |-> 0]]
    /\ options = [scan_interval |-> 2]
    /\ opt_result.type = "form"
    /\ opt_result.default = 2

\* the annotation each failed submission gets, from that submission alone
AnnotationOf(e) ==
    IF e = [cls |-> "Exception", msg |-> "invalid_host"] THEN "invalid_host"
    ELSE IF e.cls \in ClientErrorKinds THEN "cannot_connect"
    ELSE e.msg

\* C7: after any number and mix of failed submissions the wizard shows the
\* same parameter step, with the same source type and no entry, annotated
\* with the latest submission's error only; a success that follows creates
\* the entry a first submission would have created.
C7_FailureIsNotSticky ==
    n_failed > 0 =>
       /\ handler = StepOfSelection(user_selection)
       /\ source_type \in TypesOfStep(handler)
       /\ (pc = "idle" /\ result.type = "form") =>
             /\ FormWithError(AnnotationOf(exc))
             /\ entry = NoEntry
       /\ result.type # "create_entry" => entry = NoEntry
       /\ result.type = "create_entry" =>
             /\ exc = NoExc
             /\ entry.title = user_input.name
             /\ DOMAIN entry.data = KeysOfStep(handler)
             /\ entry.data.source_type \in TypesOfStep(handler)
             /\ \A k \in DOMAIN entry.data \ {"source_type"} :
                   entry.data[k] = user_input[k]

C7_Witness ==
    /\ n_failed = MaxFailures
    /\ result.type = "create_entry"
    /\ entry.data.source_type = "json"

\* C8 as claimed: a CGI selection can be routed to the generic step setup.
C8_Original ==
    (pc = "idle" /\ CurStep = "user") =>
        ENABLED (StepUser("CGI") /\ result'.step_id = "setup")

\* C8 (amended): there is no CGI-without-auth route: a wizard whose source
\* type is cgi is only ever in step setup_html_or_cgi, and an entry with
\* source_type cgi carries host, source_type, username and password; step
\* setup is reached with javascript and json only.
C8_CgiNeedsAuth ==
    /\ source_type = "cgi" =>
          /\ CurStep \in {"setup_html_or_cgi", "none"}
          /\ handler \in {"setup_html_or_cgi", "none"}
          /\ entry # NoEntry =>
                DOMAIN entry.data = {"host", "source_type", "username", "password"}
    /\ (CurStep = "setup" \/ handler = "setup") => source_type \in {"javascript", "json"}

C8_Witness ==
    /\ entry # NoEntry
    /\ entry.data.source_type = "cgi"
    /\ "username" \in DOMAIN entry.data

\* C9: the fields of a persisted entry are determined by the type chosen in
\* the user step: source_type is the lower-cased selection; html and cgi
\* entries carry username and password and no serial_number; tcp entries
\* carry serial_number and no credentials; javascript and json entries carry
\* host and source_type only.  A parameter step only runs while source_type
\* belongs to it, and never changes source_type.
C9_FieldsByType ==
    /\ [] /\ user_selection # "none" =>
               source_type \in {"javascript", "json", "html", "tcp", "cgi"}
          /\ user_selection = "Javascript" => source_type = "javascript"
          /\ user_selection = "JSON" => source_type = "json"
          /\ user_selection = "HTML" => source_type = "html"
          /\ user_selection = "TCP" => source_type = "tcp"
          /\ user_selection = "CGI" => source_type = "cgi"
          /\ handler # "none" => source_type \in TypesOfStep(handler)
          /\ entry # NoEntry =>
                /\ entry.data.source_type = source_type
                /\ entry.data.source_type \in {"html", "cgi"} =>
                      DOMAIN entry.data = {"host", "source_type", "username", "password"}
                /\ entry.data.source_type = "tcp" =>
                      DOMAIN entry.data = {"host", "source_type", "serial_number"}
                /\ entry.data.source_type \in {"javascript", "json"} =>
                      DOMAIN entry.data = {"host", "source_type"}
    /\ [][ (pc # "idle" \/ pc' # "idle") => source_type' = source_type ]_vars

C9_Witness ==
    /\ entry # NoEntry
    /\ entry.data.source_type = "tcp"
    /\ entry.data.serial_number = 2
    /\ user_selection = "TCP"

\* C10: within one submission the events are ordered resolve, open, fetch,
\* close, result: the probe runs at most once and only after the host
\* resolved (after a resolution failure the client is never opened), an
\* opened client is closed before the step returns, whether the probe
\* returned or raised, and the entry is created only after a probe that
\* returned.
C10_SubmissionOrder ==
    /\ Cardinality(Positions(events, {"fetch_ok", "fetch_error"})) <= 1
    /\ Cardinality(Positions(events, {"open"})) <= 1
    /\ \A i \in DOMAIN events :
          /\ events[i] \in {"resolve_ok", "resolve_gaierror", "resolve_error"} => i = 1
          /\ events[i] = "open" => i = 2 /\ events[1] = "resolve_ok"
          /\ events[i] \in {"fetch_ok", "fetch_error"} => i = 3 /\ events[2] = "open"
          /\ events[i] = "close" => i = 4 /\ events[3] \in {"fetch_ok", "fetch_error"}
          /\ events[i] = "create_entry" =>
                i = 5 /\ events[3] = "fetch_ok" /\ events[4] = "close"
          /\ events[i] = "show_form" =>
                \/ i = 2 /\ events[1] \in {"resolve_gaierror", "resolve_error"}
                \/ i = 5 /\ events[3] = "fetch_error" /\ events[4] = "close"
    /\ client # NoClient <=> ("open" \in Range(events) /\ "close" \notin Range(events))
    /\ pc = "idle" => client = NoClient
    /\ (pc = "idle" /\ handler # "none") =>
          Range(events) \cap {"create_entry", "show_form"} # {}
    /\ entry # NoEntry =>
          events = <<"resolve_ok", "open", "fetch_ok", "close", "create_entry">>

C10_Witness ==
    /\ pc = "idle"
    /\ events = <<"resolve_ok", "open", "fetch_error", "close", "show_form">>
    /\ client = NoClient

====
